---- MODULE Spec2Model ----
(***************************************************************************)
(* C/MRI frame decoder (CmriStateMachine, src/src/lib.rs).                 *)
(*                                                                         *)
(* The decoder's fields are the variables state, payload and position.    *)
(* One action, Process(byte), is one call of CmriStateMachine::process.    *)
(* The remaining variables record what the caller fed and what it got      *)
(* back; the decoder never reads them.                                     *)
(***************************************************************************)
EXTENDS Integers, Sequences, FiniteSets, TLC

VARIABLES
    state,          \* CmriStateMachine.state
    payload,        \* CmriStateMachine.payload, slot i of the code is payload[i+1]
    position,       \* CmriStateMachine.position
    fed,            \* caller: bytes fed in the current attempt at a frame
    results,        \* caller: the result of each of those calls
    afterComplete,  \* caller: the call before the current attempt returned Complete
    tail2,          \* caller: the last two bytes fed since construction
    seenPPS,        \* caller: the stream fed so far contains FF FF 02
    output_bits,    \* CmriProcessor.output_bits, as 16 hex digits, the first the highest
    gbBit,          \* caller: the argument of the last get_bit call, -1 before any
    gbRet,          \* caller: what that call returned
    pending,        \* serial: the bytes received and not yet read, oldest first
    pc,             \* CmriProcessor::process: "idle", "loop" (in the while) or "done"
    input,          \* caller: the pending bytes when CmriProcessor::process was called
    start           \* caller: the decoder when CmriProcessor::process was called

decoderVars == <<state, payload, position>>

callerVars == <<fed, results, afterComplete, tail2, seenPPS>>

bitVars == <<output_bits, gbBit, gbRet>>

procVars == <<pending, pc, input, start>>

vars == <<decoderVars, callerVars, bitVars, procVars>>

----------------------------------------------------------------------------
(* Program constants *)

RX_BUFFER_LEN == 258

CMRI_PREAMBLE_BYTE == 255

CMRI_START_BYTE == 2

CMRI_STOP_BYTE == 3

CMRI_ESCAPE_BYTE == 16

\* A byte with no meaning in the protocol (the junk byte of the unit tests).
JUNK_BYTE == 5

----------------------------------------------------------------------------
(* Bounds of the model *)

\* An attempt at a frame is short or long. A short attempt has at most MaxFree
\* bytes, each any byte of Bytes.
MaxFree == 8

\* A long attempt is FF FF 02 followed by JUNK_BYTE up to byte
\* RX_BUFFER_LEN - MaxTail; its last MaxTail bytes up to the capacity of the
\* buffer are any byte of Bytes,
MaxTail == 3

\* and so are the MaxOver bytes fed after the RX_BUFFER_LEN-th.
MaxOver == 2

\* The greatest raw length of a frame fed after a stray PREAMBLE.
MaxStray == 9

\* The greatest number of bytes pending when CmriProcessor::process is called.
MaxPending == 4

\* The byte values fed: the four reserved values and one plain value.
Bytes ==
    {CMRI_PREAMBLE_BYTE, CMRI_START_BYTE, CMRI_STOP_BYTE, CMRI_ESCAPE_BYTE, JUNK_BYTE}

----------------------------------------------------------------------------
(* The decoder *)

CmriState == {"Idle", "Attn", "Start", "Addr", "Type", "Data", "Escape"}

RxState == {"Listening", "Complete"}

\* The decoder as one value: the receiver `self` of the methods.
Self == [state |-> state, payload |-> payload, position |-> position]

\* CmriStateMachine::new
new ==
    [state |-> "Idle", payload |-> [i \in 1..RX_BUFFER_LEN |-> 0], position |-> 0]

\* push with the capacity test off by one: a write is attempted at slot
\* RX_BUFFER_LEN and the cursor passes the capacity.
pushOffByOne(self, byte) ==
    IF self.position = RX_BUFFER_LEN + 1
    THEN [ok |-> FALSE, self |-> self]
    ELSE [ok |-> TRUE,
          self |-> [self EXCEPT !.payload = [i \in DOMAIN self.payload |->
                                               IF i = self.position + 1 THEN byte
                                               ELSE self.payload[i]],
                                !.position = self.position + 1]]

\* push refusing one slot early: the last slot of the buffer is never used.
pushEarly(self, byte) ==
    IF self.position >= RX_BUFFER_LEN - 1
    THEN [ok |-> FALSE, self |-> self]
    ELSE [ok |-> TRUE,
          self |-> [self EXCEPT !.payload[self.position + 1] = byte,
                                !.position = self.position + 1]]

\* CmriStateMachine::push: Err(OutOfBounds) when the buffer is full, else the
\* byte is written at the cursor and the cursor advances.
push(self, byte) ==
    IF self.position = RX_BUFFER_LEN
    THEN [ok |-> FALSE, self |-> self]
    ELSE [ok |-> TRUE,
          self |-> [self EXCEPT !.payload[self.position + 1] = byte,
                                !.position = self.position + 1]]

\* clear resetting the cursor alone: the old bytes stay in the buffer.
clearCursorOnly(self) ==
    [self EXCEPT !.position = 0]

\* CmriStateMachine::clear
clear(self) ==
    [self EXCEPT !.position = 0, !.payload = [i \in 1..RX_BUFFER_LEN |-> 0]]

\* The state assigned before the push is tried: `self.state = next;
\* self.push(byte)?;`.
pushThenEager(self, byte, next, ret) ==
    LET p == push(self, byte) IN
    IF p.ok
    THEN [self |-> [p.self EXCEPT !.state = next], ret |-> ret]
    ELSE [self |-> [p.self EXCEPT !.state = next], ret |-> "OutOfBounds"]

\* The overflow recovering by itself: on the error the buffer is cleared and
\* the decoder goes back to Idle.
pushThenRecover(self, byte, next, ret) ==
    LET p == push(self, byte) IN
    IF p.ok
    THEN [self |-> [p.self EXCEPT !.state = next], ret |-> ret]
    ELSE [self |-> [clear(p.self) EXCEPT !.state = "Idle"], ret |-> "OutOfBounds"]

\* `self.push(byte)?; self.state = next;` followed by the arm's result: the
\* `?` returns the error before the state is assigned.
pushThen(self, byte, next, ret) ==
    LET p == push(self, byte) IN
    IF p.ok
    THEN [self |-> [p.self EXCEPT !.state = next], ret |-> ret]
    ELSE [self |-> p.self, ret |-> "OutOfBounds"]

\* The discard resetting the cursor but leaving the bytes in the buffer.
discardKeepsBytes(self) ==
    [self |-> [self EXCEPT !.position = 0, !.state = "Idle"], ret |-> "Listening"]

\* `self.clear(); self.state = Idle;`
discard(self) ==
    [self |-> [clear(self) EXCEPT !.state = "Idle"], ret |-> "Listening"]

\* The Idle arm without the clear: the new frame is appended after the old
\* one.
processIdleNoClear(self, byte) ==
    IF byte = CMRI_PREAMBLE_BYTE
    THEN pushThen(self, byte, "Attn", "Listening")
    ELSE [self |-> self, ret |-> "Listening"]

\* The Idle arm clearing the buffer on every byte.
processIdleClearsAlways(self, byte) ==
    IF byte = CMRI_PREAMBLE_BYTE
    THEN pushThen(clear(self), byte, "Attn", "Listening")
    ELSE [self |-> clear(self), ret |-> "Listening"]

\* process, arm Idle
processIdle(self, byte) ==
    IF byte = CMRI_PREAMBLE_BYTE
    THEN pushThen(clear(self), byte, "Attn", "Listening")
    ELSE [self |-> self, ret |-> "Listening"]

\* The Attn arm taking START after a single PREAMBLE.
processAttnLenient(self, byte) ==
    IF byte = CMRI_PREAMBLE_BYTE
    THEN pushThen(self, byte, "Start", "Listening")
    ELSE IF byte = CMRI_START_BYTE
    THEN pushThen(self, byte, "Addr", "Listening")
    ELSE discard(self)

\* The Attn arm going back to Idle without clearing the buffer.
processAttnNoClear(self, byte) ==
    IF byte = CMRI_PREAMBLE_BYTE
    THEN pushThen(self, byte, "Start", "Listening")
    ELSE [self |-> [self EXCEPT !.state = "Idle"], ret |-> "Listening"]

\* process, arm Attn
processAttn(self, byte) ==
    IF byte = CMRI_PREAMBLE_BYTE
    THEN pushThen(self, byte, "Start", "Listening")
    ELSE discard(self)

\* The Start arm taking a further PREAMBLE as the first one of a new frame.
processStartRestart(self, byte) ==
    IF byte = CMRI_START_BYTE
    THEN pushThen(self, byte, "Addr", "Listening")
    ELSE IF byte = CMRI_PREAMBLE_BYTE
    THEN pushThen(clear(self), byte, "Attn", "Listening")
    ELSE discard(self)

\* The Start arm going back to Idle without clearing the buffer.
processStartNoClear(self, byte) ==
    IF byte = CMRI_START_BYTE
    THEN pushThen(self, byte, "Addr", "Listening")
    ELSE [self |-> [self EXCEPT !.state = "Idle"], ret |-> "Listening"]

\* The Start arm skipping any further PREAMBLE bytes while it waits for START.
processStartTolerant(self, byte) ==
    IF byte = CMRI_START_BYTE
    THEN pushThen(self, byte, "Addr", "Listening")
    ELSE IF byte = CMRI_PREAMBLE_BYTE
    THEN [self |-> self, ret |-> "Listening"]
    ELSE discard(self)

\* process, arm Start
processStart(self, byte) ==
    IF byte = CMRI_START_BYTE
    THEN pushThen(self, byte, "Addr", "Listening")
    ELSE discard(self)

\* The Addr arm resynchronising on a PREAMBLE byte instead of taking it as the
\* address.
processAddrResync(self, byte) ==
    IF byte = CMRI_PREAMBLE_BYTE
    THEN discard(self)
    ELSE pushThen(self, byte, "Type", "Listening")

\* process, arm Addr
processAddr(self, byte) ==
    pushThen(self, byte, "Type", "Listening")

\* process, arm Type
processType(self, byte) ==
    pushThen(self, byte, "Data", "Listening")

\* The Data arm ignoring the result of push on STOP: the frame is reported
\* complete although its last byte was refused.
processDataIgnoresErr(self, byte) ==
    IF byte = CMRI_ESCAPE_BYTE
    THEN pushThen(self, byte, "Escape", "Listening")
    ELSE IF byte = CMRI_STOP_BYTE
    THEN [self |-> [push(self, byte).self EXCEPT !.state = "Idle"],
          ret |-> "Complete"]
    ELSE pushThen(self, byte, "Data", "Listening")

\* process, arm Data
processData(self, byte) ==
    IF byte = CMRI_ESCAPE_BYTE
    THEN pushThen(self, byte, "Escape", "Listening")
    ELSE IF byte = CMRI_STOP_BYTE
    THEN pushThen(self, byte, "Idle", "Complete")
    ELSE pushThen(self, byte, "Data", "Listening")

\* The Escape arm with STOP still ending the frame.
processEscapeStops(self, byte) ==
    IF byte = CMRI_STOP_BYTE
    THEN pushThen(self, byte, "Idle", "Complete")
    ELSE pushThen(self, byte, "Data", "Listening")

\* The Escape arm collapsing the escape while it accumulates: the literal byte
\* overwrites the ESCAPE byte stored before it.
processEscapeCollapse(self, byte) ==
    [self |-> [self EXCEPT !.payload[self.position] = byte, !.state = "Data"],
     ret |-> "Listening"]

\* process, arm Escape
processEscape(self, byte) ==
    pushThen(self, byte, "Data", "Listening")

\* CmriStateMachine::process
process(self, byte) ==
    CASE self.state = "Idle"   -> processIdle(self, byte)
      [] self.state = "Attn"   -> processAttn(self, byte)
      [] self.state = "Start"  -> processStart(self, byte)
      [] self.state = "Addr"   -> processAddr(self, byte)
      [] self.state = "Type"   -> processType(self, byte)
      [] self.state = "Data"   -> processData(self, byte)
      [] self.state = "Escape" -> processEscape(self, byte)

----------------------------------------------------------------------------
(* The wire format, as the caller sees it *)

Last(s) == s[Len(s)]

\* Byte i of a frame s lies in the data region and follows an ESCAPE that is
\* itself not escaped: the run of ESCAPE bytes that ends right before i
\* (inside the data region, which starts at byte 6) has odd length.
Escaped(s, i) ==
    LET stops == {k \in 5..(i - 1) : k = 5 \/ s[k] # CMRI_ESCAPE_BYTE}
        j == CHOOSE k \in stops : \A m \in stops : m <= k
    IN (i - 1 - j) % 2 = 1

\* No STOP and no PREAMBLE stands unescaped among bytes 6..n of s.
DataOK(s, n) ==
    \A i \in 6..n :
        s[i] \in {CMRI_STOP_BYTE, CMRI_PREAMBLE_BYTE} => Escaped(s, i)

\* s is a well-formed frame FF FF 02 <addr> <type> <data...> 03.
WellFormed(s) ==
    /\ Len(s) >= 6
    /\ Len(s) <= RX_BUFFER_LEN
    /\ s[1] = CMRI_PREAMBLE_BYTE
    /\ s[2] = CMRI_PREAMBLE_BYTE
    /\ s[3] = CMRI_START_BYTE
    /\ Last(s) = CMRI_STOP_BYTE
    /\ ~Escaped(s, Len(s))
    /\ DataOK(s, Len(s) - 1)

\* s is the beginning of a well-formed frame that has not ended yet.
ProperFramePrefix(s) ==
    /\ Len(s) < RX_BUFFER_LEN
    /\ Len(s) >= 1 => s[1] = CMRI_PREAMBLE_BYTE
    /\ Len(s) >= 2 => s[2] = CMRI_PREAMBLE_BYTE
    /\ Len(s) >= 3 => s[3] = CMRI_START_BYTE
    /\ DataOK(s, Len(s))

\* The data of a Message View: the raw data region with each ESCAPE byte and
\* the byte after it replaced by that byte alone.
RECURSIVE collapseFrom(_, _)
collapseFrom(s, i) ==
    IF i > Len(s) THEN <<>>
    ELSE IF s[i] = CMRI_ESCAPE_BYTE
    THEN IF i < Len(s) THEN <<s[i + 1]>> \o collapseFrom(s, i + 2) ELSE <<>>
    ELSE <<s[i]>> \o collapseFrom(s, i + 1)

Collapse(s) == collapseFrom(s, 1)

\* The raw data region of the buffer pl up to slot n: what follows the type
\* byte.
DataRegion(pl, n) == SubSeq(pl, 6, n)

----------------------------------------------------------------------------
(* The processor's output bits (CmriProcessor, src/src/arduino.rs) *)

OUTPUT_BITS == 64

\* The values of a u8.
U8 == 0..(2^8 - 1)

HexDigit == 0..15

\* A u64 is its 16 hex digits, w[1] the most significant.
Zero64 == [d \in 1..16 |-> 0]

\* Bit k (0 the least significant) of the number w: (w / 2^k) % 2.
BitOf(w, k) == (w[16 - (k \div 4)] \div (2^(k % 4))) % 2

\* a & b on two hex digits.
And4(a, b) ==
    LET bit(x, j) == (x \div (2^j)) % 2
        both(j) == IF bit(a, j) = 1 /\ bit(b, j) = 1 THEN 2^j ELSE 0
    IN both(0) + both(1) + both(2) + both(3)

\* a & b on two u64.
And64(a, b) == [d \in 1..16 |-> And4(a[d], b[d])]

\* 1 << sh as a u64, for a shift the type allows (0..63).
Shl1(sh) == [d \in 1..16 |-> IF d = 16 - (sh \div 4) THEN 2^(sh % 4) ELSE 0]

\* get_bit counting from the least significant bit: the mask is 1 << bit.
get_bitLsbFirst(w, bit) ==
    IF bit > OUTPUT_BITS - 1
    THEN [ret |-> FALSE, panic |-> FALSE]
    ELSE [ret |-> And64(w, Shl1(bit)) # Zero64, panic |-> FALSE]

\* CmriProcessor::get_bit on output_bits = w. panic: the u8 subtraction or
\* the shift overflows (a panic in a debug build).
get_bit(w, bit) ==
    IF bit > OUTPUT_BITS - 1
    THEN [ret |-> FALSE, panic |-> FALSE]
    ELSE LET sh == OUTPUT_BITS - 1 - bit IN
         IF sh < 0 \/ sh >= 64
         THEN [ret |-> FALSE, panic |-> TRUE]
         ELSE [ret |-> And64(w, Shl1(sh)) # Zero64, panic |-> FALSE]

\* The processor as Default::default() leaves it, no get_bit call made.
BitsInit ==
    /\ output_bits = Zero64
    /\ gbBit = -1
    /\ gbRet = [ret |-> FALSE, panic |-> FALSE]

\* No call of CmriProcessor::process under way, nothing received.
ProcInit ==
    /\ pending = <<>>
    /\ pc = "idle"
    /\ input = <<>>
    /\ start = new

----------------------------------------------------------------------------
(* The state machine *)

\* The bytes of the attempt s after the header are those of a long attempt.
LongShape(s) == \A i \in 4..MaxFree : s[i] = JUNK_BYTE

\* The caller may feed `byte` as byte number n of the attempt s.
Allowed(s, n, byte) ==
    IF n <= MaxFree
    THEN TRUE
    ELSE /\ n <= RX_BUFFER_LEN + MaxOver
         /\ LongShape(s)
         /\ n <= RX_BUFFER_LEN - MaxTail => byte = JUNK_BYTE

Init ==
    /\ state = new.state
    /\ payload = new.payload
    /\ position = new.position
    /\ fed = <<>>
    /\ results = <<>>
    /\ afterComplete = FALSE
    /\ tail2 = <<>>
    /\ seenPPS = FALSE
    /\ BitsInit
    /\ ProcInit

\* One call process(byte). The caller starts a new attempt when the decoder
\* is Idle and what it fed so far is not the beginning of a frame.
Process(byte) ==
    LET restart == state = "Idle" /\ ~ProperFramePrefix(fed)
        n == IF restart THEN 1 ELSE Len(fed) + 1
        r == process(Self, byte)
    IN /\ Allowed(fed, n, byte)
       /\ state' = r.self.state
       /\ payload' = r.self.payload
       /\ position' = r.self.position
       /\ fed' = IF restart THEN <<byte>> ELSE Append(fed, byte)
       /\ results' = IF restart THEN <<r.ret>> ELSE Append(results, r.ret)
       /\ afterComplete' = IF restart
                           THEN results # <<>> /\ Last(results) = "Complete"
                           ELSE afterComplete
       /\ tail2' = IF Len(tail2) < 2 THEN Append(tail2, byte)
                   ELSE <<tail2[2], byte>>
       /\ seenPPS' = (seenPPS \/ (/\ tail2 = <<CMRI_PREAMBLE_BYTE, CMRI_PREAMBLE_BYTE>>
                                  /\ byte = CMRI_START_BYTE))
       /\ UNCHANGED <<bitVars, procVars>>

Next == \E byte \in Bytes : Process(byte)

Spec == Init /\ [][Next]_vars

----------------------------------------------------------------------------
(* What the last call was *)

Called == results # <<>>

LastByte == Last(fed)

LastRet == Last(results)

TypeOK ==
    /\ state \in CmriState
    /\ position \in 0..RX_BUFFER_LEN
    /\ DOMAIN payload = 1..RX_BUFFER_LEN
    /\ Len(fed) = Len(results)
    /\ \A i \in 1..Len(results) : results[i] \in RxState \cup {"OutOfBounds"}

----------------------------------------------------------------------------
(* C1: a call returns Complete if and only if, before the call, the state  *)
(* is Data, the byte is STOP and position < RX_BUFFER_LEN; every other     *)
(* call returns Listening or the error.                                    *)
C1_CompleteIff ==
    [][/\ (LastRet' = "Complete") <=>
             (/\ state = "Data"
              /\ LastByte' = CMRI_STOP_BYTE
              /\ position < RX_BUFFER_LEN)
       /\ LastRet' # "Complete" => LastRet' \in {"Listening", "OutOfBounds"}]_vars

\* A frame completed by the byte that fills the last slot of the buffer.
C1_Witness ==
    /\ Called
    /\ LastRet = "Complete"
    /\ position = RX_BUFFER_LEN

(* C2: feeding a well-formed frame from Idle returns Listening on every    *)
(* byte but the last and Complete on the last; the buffer then holds the   *)
(* raw frame as fed, position is its length, and the address and the type  *)
(* are slots 3 and 4 of the code (payload[4] and payload[5] here).         *)
C2_WellFormedFrame ==
    WellFormed(fed) =>
        /\ Len(results) = Len(fed)
        /\ LastRet = "Complete"
        /\ \A i \in 1..(Len(fed) - 1) : results[i] = "Listening"
        /\ position = Len(fed)
        /\ SubSeq(payload, 1, position) = fed
        /\ payload[4] = fed[4]
        /\ payload[5] = fed[5]

\* A well-formed frame of the greatest raw length whose last data byte is an
\* escaped STOP.
C2_Witness ==
    /\ WellFormed(fed)
    /\ Len(fed) = RX_BUFFER_LEN
    /\ fed[RX_BUFFER_LEN - 2] = CMRI_ESCAPE_BYTE
    /\ fed[RX_BUFFER_LEN - 1] = CMRI_STOP_BYTE

\* The state before a call in which process appends the byte at the cursor
\* as it stands (the Idle arm clears before it appends).
WouldAppend(st, byte) ==
    \/ st \in {"Addr", "Type", "Data", "Escape"}
    \/ st = "Attn" /\ byte = CMRI_PREAMBLE_BYTE
    \/ st = "Start" /\ byte = CMRI_START_BYTE

(* C3: a call that would append a byte while position = RX_BUFFER_LEN      *)
(* returns the overflow error and leaves the state, the position and every *)
(* buffer slot as they were.                                               *)
C3_OverflowDrops ==
    [][(position = RX_BUFFER_LEN /\ WouldAppend(state, LastByte')) =>
          /\ LastRet' = "OutOfBounds"
          /\ state' = state
          /\ position' = position
          /\ payload' = payload]_vars

\* An overflow in state Escape: the byte dropped is an escaped one.
C3_Witness ==
    /\ Called
    /\ LastRet = "OutOfBounds"
    /\ state = "Escape"
    /\ position = RX_BUFFER_LEN

(* C4: in every reachable state 0 <= position <= RX_BUFFER_LEN and the     *)
(* buffer has exactly its RX_BUFFER_LEN slots.                             *)
C4_CursorInBounds ==
    /\ position \in 0..RX_BUFFER_LEN
    /\ DOMAIN payload = 1..RX_BUFFER_LEN

\* A call made with the buffer full.
C4_Witness ==
    /\ Called
    /\ position = RX_BUFFER_LEN
    /\ LastRet = "OutOfBounds"

\* The buffer as clear leaves it.
Zeroes == [i \in 1..RX_BUFFER_LEN |-> 0]

(* C5, as stated: in Data an ESCAPE byte moves the decoder to Escape, and  *)
(* the next byte, whatever its value, returns Listening, is appended and   *)
(* brings the decoder back to Data.                                        *)
C5_Original ==
    [][/\ (state = "Data" /\ LastByte' = CMRI_ESCAPE_BYTE) => state' = "Escape"
       /\ state = "Escape" =>
             /\ LastRet' = "Listening"
             /\ state' = "Data"
             /\ position' = position + 1]_vars

(* C5, amended: while position < RX_BUFFER_LEN, in Data an ESCAPE byte     *)
(* moves the decoder to Escape, and in Escape any byte returns Listening,  *)
(* is appended at the cursor with the rest of the buffer kept, brings the  *)
(* decoder back to Data, and is the last byte of the collapsed data, which *)
(* is the collapsed data before the ESCAPE plus that byte. At position =   *)
(* RX_BUFFER_LEN both calls return the overflow error and change nothing.  *)
C5_EscapeLiteral ==
    [][/\ (state = "Data" /\ LastByte' = CMRI_ESCAPE_BYTE) =>
             IF position < RX_BUFFER_LEN
             THEN state' = "Escape" /\ LastRet' = "Listening"
             ELSE /\ LastRet' = "OutOfBounds"
                  /\ UNCHANGED <<state, position, payload>>
       /\ state = "Escape" =>
             IF position < RX_BUFFER_LEN
             THEN /\ LastRet' = "Listening"
                  /\ state' = "Data"
                  /\ position' = position + 1
                  /\ payload' = [payload EXCEPT ![position + 1] = LastByte']
                  /\ payload[position] = CMRI_ESCAPE_BYTE
                  /\ Collapse(DataRegion(payload', position')) =
                        Append(Collapse(DataRegion(payload, position - 1)),
                               LastByte')
             ELSE /\ LastRet' = "OutOfBounds"
                  /\ UNCHANGED <<state, position, payload>>]_vars

\* An escaped STOP taken as data: the frame goes on.
C5_Witness ==
    /\ Called
    /\ Len(fed) >= 7
    /\ state = "Data"
    /\ LastByte = CMRI_STOP_BYTE
    /\ LastRet = "Listening"
    /\ payload[position - 1] = CMRI_ESCAPE_BYTE

(* C6, as stated: while the bytes fed to a fresh decoder do not contain    *)
(* FF FF 02, the decoder is Idle with position 0 after every byte.         *)
C6_Original ==
    ~seenPPS => (state = "Idle" /\ position = 0)

(* C6, amended: while the bytes fed to a fresh decoder do not contain      *)
(* FF FF 02, the decoder never gets past Start and no call returns         *)
(* Complete or an error: it is Idle with position 0, Attn with position 1  *)
(* or Start with position 2, and it is Idle with position 0 after every    *)
(* byte other than PREAMBLE.                                               *)
C6_NoFrameWithoutStart ==
    ~seenPPS =>
        /\ state \in {"Idle", "Attn", "Start"}
        /\ state = "Idle" => position = 0 /\ payload = Zeroes
        /\ state = "Attn" => position = 1
        /\ state = "Start" => position = 2
        /\ \A i \in 1..Len(results) : results[i] = "Listening"
        /\ (Called /\ LastByte # CMRI_PREAMBLE_BYTE) => state = "Idle"

\* FF 02 fed, but not FF FF 02: the decoder is back in Idle.
C6_Witness ==
    /\ ~seenPPS
    /\ tail2 = <<CMRI_PREAMBLE_BYTE, CMRI_START_BYTE>>
    /\ state = "Idle"
    /\ position = 0

(* C7: from every reachable Idle state a PREAMBLE byte returns Listening   *)
(* and leaves state = Attn, position = 1, 0xFF in slot 0 and zero in every *)
(* other slot.                                                             *)
C7_IdlePreamble ==
    [][(state = "Idle" /\ LastByte' = CMRI_PREAMBLE_BYTE) =>
          /\ LastRet' = "Listening"
          /\ state' = "Attn"
          /\ position' = 1
          /\ payload' = [Zeroes EXCEPT ![1] = CMRI_PREAMBLE_BYTE]]_vars

\* The PREAMBLE that follows a completed frame, whose bytes are in the buffer.
C7_Witness ==
    /\ afterComplete
    /\ state = "Attn"
    /\ fed = <<CMRI_PREAMBLE_BYTE>>
    /\ position = 1

(* C8: in Attn a PREAMBLE byte is appended and the decoder moves to Start, *)
(* with position 2; any other byte clears the buffer and returns the       *)
(* decoder to Idle; both return Listening.                                 *)
C8_Attn ==
    [][state = "Attn" =>
          /\ LastRet' = "Listening"
          /\ IF LastByte' = CMRI_PREAMBLE_BYTE
             THEN /\ state' = "Start"
                  /\ position' = 2
                  /\ payload' = [payload EXCEPT ![2] = CMRI_PREAMBLE_BYTE]
                  /\ payload'[1] = CMRI_PREAMBLE_BYTE
             ELSE /\ state' = "Idle"
                  /\ position' = 0
                  /\ payload' = Zeroes]_vars

\* A PREAMBLE followed by START: the decoder is back in Idle, buffer cleared.
C8_Witness ==
    /\ fed = <<CMRI_PREAMBLE_BYTE, CMRI_START_BYTE>>
    /\ state = "Idle"
    /\ position = 0
    /\ payload = Zeroes

(* C10: the call that returns Complete leaves the decoder in Idle, and a   *)
(* well-formed frame fed right after a completed one returns Complete on   *)
(* its last byte, with the buffer holding that frame alone: position is    *)
(* its length and every slot beyond it is zero.                            *)
C10_SecondFrame ==
    /\ (Called /\ LastRet = "Complete") => state = "Idle"
    /\ (afterComplete /\ WellFormed(fed)) =>
          /\ LastRet = "Complete"
          /\ position = Len(fed)
          /\ SubSeq(payload, 1, position) = fed
          /\ \A i \in (position + 1)..RX_BUFFER_LEN : payload[i] = 0

\* A second frame completed right after a first one.
C10_Witness ==
    /\ afterComplete
    /\ WellFormed(fed)
    /\ LastRet = "Complete"
    /\ state = "Idle"

(* C11: process returns the error if and only if the state before the call *)
(* is Data or Escape and position = RX_BUFFER_LEN; so within an attempt at *)
(* a frame no call before the 259th returns it, and a well-formed frame of *)
(* raw length RX_BUFFER_LEN completes.                                     *)
C11_ErrorIff ==
    [][/\ (LastRet' = "OutOfBounds") <=>
             (state \in {"Data", "Escape"} /\ position = RX_BUFFER_LEN)
       /\ \A i \in 1..Len(results') :
             results'[i] = "OutOfBounds" => i > RX_BUFFER_LEN
       /\ (WellFormed(fed') /\ Len(fed') = RX_BUFFER_LEN) =>
             LastRet' = "Complete"]_vars

\* The 259th byte of an attempt refused, the 258 before it accepted.
C11_Witness ==
    /\ Len(results) = RX_BUFFER_LEN + 1
    /\ results[RX_BUFFER_LEN + 1] = "OutOfBounds"
    /\ \A i \in 1..RX_BUFFER_LEN : results[i] = "Listening"
    /\ state = "Data"

(* C12: in Addr and in Type every byte value, the reserved ones included,  *)
(* is appended at the cursor and advances the decoder (Addr -> Type,       *)
(* Type -> Data) with result Listening.                                    *)
C12_AddrTypeAny ==
    [][(state = "Addr" \/ state = "Type") =>
          /\ LastRet' = "Listening"
          /\ state = "Addr" => state' = "Type"
          /\ state = "Type" => state' = "Data"
          /\ payload' = [payload EXCEPT ![position + 1] = LastByte']
          /\ position' = position + 1]_vars

\* PREAMBLE taken as the address and STOP as the type.
C12_Witness ==
    /\ fed = <<CMRI_PREAMBLE_BYTE, CMRI_PREAMBLE_BYTE, CMRI_START_BYTE,
               CMRI_PREAMBLE_BYTE, CMRI_STOP_BYTE>>
    /\ state = "Data"
    /\ position = 5
    /\ payload[4] = CMRI_PREAMBLE_BYTE
    /\ payload[5] = CMRI_STOP_BYTE

(* C14: in Start only the START byte is appended and advances the decoder  *)
(* to Addr; every other byte, a third PREAMBLE included, clears the buffer *)
(* and returns the decoder to Idle. So FF FF FF 02 fed from Idle leaves    *)
(* the decoder in Idle with position 0.                                    *)
C14_Start ==
    [][/\ state = "Start" =>
             /\ LastRet' = "Listening"
             /\ IF LastByte' = CMRI_START_BYTE
                THEN /\ state' = "Addr"
                     /\ payload' = [payload EXCEPT ![position + 1] = CMRI_START_BYTE]
                     /\ position' = position + 1
                ELSE /\ state' = "Idle"
                     /\ position' = 0
                     /\ payload' = Zeroes
       /\ (/\ fed = <<CMRI_PREAMBLE_BYTE, CMRI_PREAMBLE_BYTE, CMRI_PREAMBLE_BYTE>>
           /\ LastByte' = CMRI_START_BYTE) =>
             /\ state' = "Idle"
             /\ position' = 0
             /\ LastRet' = "Listening"]_vars

\* START fed right after FF FF FF: it is ignored in Idle.
C14_Witness ==
    /\ tail2 = <<CMRI_PREAMBLE_BYTE, CMRI_START_BYTE>>
    /\ seenPPS
    /\ fed = <<CMRI_START_BYTE>>
    /\ ~afterComplete
    /\ state = "Idle"
    /\ position = 0

(* C15: in Idle a byte other than PREAMBLE returns Listening and leaves    *)
(* the state, the position and every buffer slot unchanged; the bytes of a *)
(* completed frame stay in the buffer until the next PREAMBLE.             *)
C15_IdleIgnores ==
    [][(state = "Idle" /\ LastByte' # CMRI_PREAMBLE_BYTE) =>
          /\ LastRet' = "Listening"
          /\ state' = state
          /\ position' = position
          /\ payload' = payload]_vars

\* A byte ignored after a completed frame of the greatest length, which is
\* still in the buffer.
C15_Witness ==
    /\ afterComplete
    /\ state = "Idle"
    /\ fed = <<CMRI_STOP_BYTE>>
    /\ position = RX_BUFFER_LEN
    /\ payload[RX_BUFFER_LEN] = CMRI_STOP_BYTE

(* C16: once a call has returned the overflow error, every later call      *)
(* returns it again and leaves the state (Data or Escape), the position    *)
(* (RX_BUFFER_LEN) and the buffer unchanged.                               *)
C16_StuckAfterOverflow ==
    [][(Called /\ LastRet = "OutOfBounds") =>
          /\ LastRet' = "OutOfBounds"
          /\ state \in {"Data", "Escape"}
          /\ position = RX_BUFFER_LEN
          /\ state' = state
          /\ position' = position
          /\ payload' = payload]_vars

\* A second error in a row, on a STOP byte fed in Data.
C16_Witness ==
    /\ Len(results) = RX_BUFFER_LEN + 2
    /\ results[RX_BUFFER_LEN + 1] = "OutOfBounds"
    /\ results[RX_BUFFER_LEN + 2] = "OutOfBounds"
    /\ LastByte = CMRI_STOP_BYTE
    /\ state = "Data"

\* The first n slots of the buffer hold a frame the decoder completed: header
\* FF FF 02, address, type, and a STOP that is the first one not escaped.
CompletedFrame(pl, n) ==
    /\ n >= 6
    /\ pl[1] = CMRI_PREAMBLE_BYTE
    /\ pl[2] = CMRI_PREAMBLE_BYTE
    /\ pl[3] = CMRI_START_BYTE
    /\ pl[n] = CMRI_STOP_BYTE
    /\ ~Escaped(pl, n)
    /\ \A i \in 6..(n - 1) : pl[i] = CMRI_STOP_BYTE => Escaped(pl, i)

(* C17: the state determines the cursor and the buffer prefix: Attn has    *)
(* position 1 and FF; Start position 2 and FF FF; Addr position 3 and      *)
(* FF FF 02; Type position 4; Data and Escape 5 <= position <=             *)
(* RX_BUFFER_LEN; Idle position 0 or a completed frame in                  *)
(* payload[0..position).                                                   *)
C17_StateDeterminesCursor ==
    /\ state = "Attn" => position = 1 /\ payload[1] = CMRI_PREAMBLE_BYTE
    /\ state = "Start" =>
          /\ position = 2
          /\ payload[1] = CMRI_PREAMBLE_BYTE
          /\ payload[2] = CMRI_PREAMBLE_BYTE
    /\ state = "Addr" =>
          /\ position = 3
          /\ payload[1] = CMRI_PREAMBLE_BYTE
          /\ payload[2] = CMRI_PREAMBLE_BYTE
          /\ payload[3] = CMRI_START_BYTE
    /\ state = "Type" => position = 4
    /\ state \in {"Data", "Escape"} => position \in 5..RX_BUFFER_LEN
    /\ state = "Idle" => position = 0 \/ CompletedFrame(payload, position)

\* Idle with a completed frame in the buffer whose last data byte is an
\* escaped STOP.
C17_Witness ==
    /\ state = "Idle"
    /\ position >= 8
    /\ payload[position - 2] = CMRI_ESCAPE_BYTE
    /\ payload[position - 1] = CMRI_STOP_BYTE
    /\ payload[position] = CMRI_STOP_BYTE

(* C19: every buffer slot at an index >= position holds 0.                 *)
C19_ZeroBeyondCursor ==
    \A i \in (position + 1)..RX_BUFFER_LEN : payload[i] = 0

\* Three bytes of a broken header discarded: the buffer is all zero again.
C19_Witness ==
    /\ fed = <<CMRI_PREAMBLE_BYTE, CMRI_PREAMBLE_BYTE, JUNK_BYTE>>
    /\ state = "Idle"
    /\ position = 0
    /\ payload = Zeroes

----------------------------------------------------------------------------
(* A frame fed after a stray PREAMBLE *)

\* The decoder has taken one PREAMBLE byte from Idle; nothing of the frame
\* has been fed yet.
InitStray ==
    LET r == process(new, CMRI_PREAMBLE_BYTE) IN
    /\ state = r.self.state
    /\ payload = r.self.payload
    /\ position = r.self.position
    /\ fed = <<>>
    /\ results = <<>>
    /\ afterComplete = FALSE
    /\ tail2 = <<CMRI_PREAMBLE_BYTE>>
    /\ seenPPS = FALSE
    /\ BitsInit
    /\ ProcInit

\* One call process(byte), where byte is the next byte of a frame of at most
\* MaxStray bytes: fed stays the beginning of a well-formed frame, or
\* becomes one.
Stray(byte) ==
    LET r == process(Self, byte)
        s == Append(fed, byte)
    IN /\ Len(s) <= MaxStray
       /\ ProperFramePrefix(fed)
       /\ ProperFramePrefix(s) \/ WellFormed(s)
       /\ state' = r.self.state
       /\ payload' = r.self.payload
       /\ position' = r.self.position
       /\ fed' = s
       /\ results' = Append(results, r.ret)
       /\ afterComplete' = afterComplete
       /\ tail2' = IF Len(tail2) < 2 THEN Append(tail2, byte)
                   ELSE <<tail2[2], byte>>
       /\ seenPPS' = (seenPPS \/ (/\ tail2 = <<CMRI_PREAMBLE_BYTE, CMRI_PREAMBLE_BYTE>>
                                  /\ byte = CMRI_START_BYTE))
       /\ UNCHANGED <<bitVars, procVars>>

NextStray == \E byte \in Bytes : Stray(byte)

SpecStray == InitStray /\ [][NextStray]_vars

(* C18: starting in Attn (Idle plus one 0xFF), feeding a well-formed frame *)
(* FF FF 02 <addr> <type> <data...> 03 with addr # 0xFF never returns      *)
(* Complete, and the decoder ends in Idle.                                 *)
C18_StrayPreambleLosesFrame ==
    (Len(fed) >= 4 /\ fed[4] # CMRI_PREAMBLE_BYTE) =>
        /\ \A i \in 1..Len(results) : results[i] = "Listening"
        /\ WellFormed(fed) => state = "Idle"

\* A whole frame fed and lost; its type byte and an escaped data byte are
\* PREAMBLE values, each of which put the decoder in Attn for one byte.
C18_Witness ==
    /\ WellFormed(fed)
    /\ Len(fed) = 8
    /\ fed[4] = JUNK_BYTE
    /\ fed[5] = CMRI_PREAMBLE_BYTE
    /\ fed[6] = CMRI_ESCAPE_BYTE
    /\ fed[7] = CMRI_PREAMBLE_BYTE
    /\ state = "Idle"

----------------------------------------------------------------------------
(* get_bit *)

\* 0xf012_ab34_cd00_00aa, the word of the unit test get_bit.
TestWord == <<15, 0, 1, 2, 10, 11, 3, 4, 12, 13, 0, 0, 0, 0, 10, 10>>

\* The words tried: zero, all ones, the test's word, every word with one bit
\* set and every word with one bit clear.
Words ==
    {Zero64, [d \in 1..16 |-> 15], TestWord}
        \cup {Shl1(k) : k \in 0..63}
        \cup {[d \in 1..16 |-> 15 - Shl1(k)[d]] : k \in 0..63}

\* The decoder untouched, as new leaves it; output_bits set to one of the
\* words, as the unit tests set it (`p.output_bits = ...`).
InitBits ==
    /\ state = new.state
    /\ payload = new.payload
    /\ position = new.position
    /\ fed = <<>>
    /\ results = <<>>
    /\ afterComplete = FALSE
    /\ tail2 = <<>>
    /\ seenPPS = FALSE
    /\ output_bits \in Words
    /\ gbBit = -1
    /\ gbRet = [ret |-> FALSE, panic |-> FALSE]
    /\ ProcInit

\* The call get_bit(bit); get_bit takes &self and changes nothing, so one
\* call is made on each word.
GetBit(bit) ==
    /\ gbBit = -1
    /\ gbBit' = bit
    /\ gbRet' = get_bit(output_bits, bit)
    /\ UNCHANGED <<output_bits, decoderVars, callerVars, procVars>>

NextBits == \E bit \in U8 : GetBit(bit)

SpecBits == InitBits /\ [][NextBits]_vars

(* C13: get_bit(n) returns, for 0 <= n <= 63, the value of bit 63 - n of   *)
(* output_bits (bit n counted from the most significant), and false for    *)
(* every n >= 64, without overflow or panic.                               *)
C13_GetBit ==
    gbBit # -1 =>
        /\ ~gbRet.panic
        /\ gbBit <= 63 => (gbRet.ret <=> BitOf(output_bits, 63 - gbBit) = 1)
        /\ gbBit >= 64 => ~gbRet.ret

\* The unit test's word and its first assertion: get_bit(0) is true, the
\* highest bit being set and the lowest clear.
C13_Witness ==
    /\ output_bits = TestWord
    /\ gbBit = 0
    /\ gbRet.ret
    /\ BitOf(output_bits, 0) = 0

----------------------------------------------------------------------------
(* CmriProcessor::process (src/src/arduino.rs) *)

\* The decoder d after process was called on bytes lo..hi of s, one after
\* the other, whatever each call returned (the range is halved, and d is
\* looked at first, to keep the evaluation shallow).
RECURSIVE feedRange(_, _, _, _)
feedRange(d, s, lo, hi) ==
    IF lo > hi \/ d.position < 0 THEN d
    ELSE IF lo = hi THEN process(d, s[lo]).self
    ELSE LET mid == (lo + hi) \div 2 IN
         feedRange(feedRange(d, s, lo, mid), s, mid + 1, hi)

feedFrom(d, s, i) == feedRange(d, s, i, Len(s))

\* What those calls returned.
resultsOf(d, s) ==
    [i \in 1..Len(s) |-> process(feedFrom(d, SubSeq(s, 1, i - 1), 1), s[i]).ret]

\* Decoders a call of CmriProcessor::process may find: fresh, after one
\* PREAMBLE, in the data of a frame, and in Data with the buffer full.
StartDecoders ==
    LET header == <<CMRI_PREAMBLE_BYTE, CMRI_PREAMBLE_BYTE, CMRI_START_BYTE>>
        junk(n) == [i \in 1..n |-> JUNK_BYTE]
    IN {new,
        feedFrom(new, <<CMRI_PREAMBLE_BYTE>>, 1),
        feedFrom(new, header \o junk(2), 1),
        feedFrom(new, header \o junk(RX_BUFFER_LEN - 3), 1)}

\* The sequences of at most n bytes.
BytesUpTo(n) == UNION {[1..k -> Bytes] : k \in 0..n}

\* CmriProcessor::process is called with some bytes pending.
InitProc ==
    /\ \E d \in StartDecoders :
          /\ state = d.state
          /\ payload = d.payload
          /\ position = d.position
          /\ start = d
    /\ pending \in BytesUpTo(MaxPending)
    /\ input = pending
    /\ pc = "loop"
    /\ fed = <<>>
    /\ results = <<>>
    /\ afterComplete = FALSE
    /\ tail2 = <<>>
    /\ seenPPS = FALSE
    /\ BitsInit

\* The loop leaving on an error as well as on Complete.
loopExitOnErr(ret) ==
    IF ret # "Listening" THEN "done" ELSE "loop"

\* `if let Ok(RxState::Complete) = self.state.process(b) { ...; break; }`:
\* where the loop goes after a call that returned ret. The arms on the
\* message type are empty.
loopExit(ret) ==
    IF ret = "Complete" THEN "done" ELSE "loop"

\* One turn of the while loop: try_receive returns Some(b), the oldest
\* pending byte, and the decoder processes it.
Receive ==
    /\ pc = "loop"
    /\ pending # <<>>
    /\ LET b == Head(pending)
           r == process(Self, b)
       IN /\ pending' = Tail(pending)
          /\ state' = r.self.state
          /\ payload' = r.self.payload
          /\ position' = r.self.position
          /\ fed' = Append(fed, b)
          /\ results' = Append(results, r.ret)
          /\ pc' = loopExit(r.ret)
    /\ UNCHANGED <<afterComplete, tail2, seenPPS, bitVars, input, start>>

\* try_receive returns None: the while loop ends.
Exhausted ==
    /\ pc = "loop"
    /\ pending = <<>>
    /\ pc' = "done"
    /\ UNCHANGED <<decoderVars, callerVars, bitVars, pending, input, start>>

NextProc == Receive \/ Exhausted

\* The loop is straight-line code: it takes its next turn.
SpecProc == InitProc /\ [][NextProc]_vars /\ WF_vars(NextProc)

\* What holds when the call has returned, k bytes read.
ProcFinal ==
    LET k == Len(fed) IN
    /\ k <= Len(input)
    /\ fed = SubSeq(input, 1, k)
    /\ pending = SubSeq(input, k + 1, Len(input))
    /\ \A i \in 1..(k - 1) : results[i] # "Complete"
    /\ k < Len(input) => (k >= 1 /\ results[k] = "Complete")
    /\ Self = feedFrom(start, fed, 1)
    /\ results = resultsOf(start, fed)

(* C20: one call of CmriProcessor::process on a finite queue of pending    *)
(* bytes terminates; it has fed the bytes to the decoder in arrival order, *)
(* stopped at the first one on which the decoder returned Complete with    *)
(* the later ones left pending, and else read them all; an error of the    *)
(* decoder neither ends the loop nor resets the decoder.                   *)
C20_ProcessorLoop ==
    /\ <>(pc = "done")
    /\ [](fed \o pending = input)
    /\ [](pc = "done" => ProcFinal)

\* The call returned on a Complete with bytes left unread.
C20_Witness ==
    /\ pc = "done"
    /\ Len(fed) >= 2
    /\ LastRet = "Complete"
    /\ pending # <<>>

====
